---- MODULE Spec2Model ----
(***************************************************************************)
(* Reconciliation and faceted counting of the combined-analysis page.      *)
(*                                                                         *)
(* Two revisions of the page live in pages/CombinedAnalysis.tsx:           *)
(*   - lines 670-1322: the page merges the vision list, the KIS stock      *)
(*     table and the KIS analysis list in the browser (calculateMatchStatus*)
(*     calculateConfidence, combinedStocks, stats, signalCounts);          *)
(*   - lines 1-669: the page reads a pre-merged snapshot (data.stocks) and *)
(*     computes the filtered list and the faceted counts.                  *)
(* SpecMerge models the first, SpecFacet the second.                       *)
(* SpecMergeFilter adds the filter handlers of the first to a small       *)
(* universe of loads; SpecSnapshot adds the history selection of the      *)
(* second (the UI store and the query cache).                             *)
(*                                                                         *)
(* SpecUIStore models the setters of useUIStore and the history panel's    *)
(* isActive; SpecSimulation the date selection of useSimulationStore;      *)
(* SpecStorage the ExpireStorage wrapper of localStorage; SpecAuth the     *)
(* auth store with its inactivity timer, and SpecAuthLive the same with    *)
(* time passing and due timers running.  One unit of time is 30 seconds.   *)
(*                                                                         *)
(* Signal labels are the Korean strings of the source, written in ASCII:   *)
(*   strong_buy = '적극매수', buy = '매수', neutral = '중립',                  *)
(*   sell = '매도', strong_sell = '적극매도'.                                 *)
(* Confidence scores are kept in tenths (1.0 -> 10, 0.7 -> 7, ...).        *)
(***************************************************************************)
EXTENDS Integers, Sequences, FiniteSets, TLC

VARIABLES
    visionData,      \* useQuery(['vision','latest']).data : Null or [results]
    kisData,         \* useQuery(['kis-data']).data        : Null or [stocks]
    kisAnalysis,     \* useQuery(['kis-analysis']).data    : Null or [results]
    loading,         \* the queries whose isLoading flag is still set
    combinedStocks,  \* the array held by the combinedStocks memo
    data,            \* the pre-merged snapshot of the newer page : Null or [stocks]
    marketFilter,    \* useState<MarketType>('all')
    matchFilters,    \* useState<Set<MatchStatus>>(new Set())
    signalFilters,   \* useState<Set<SignalType>>(new Set())
    uiStore,         \* useUIStore
    queryCache,      \* the query client's cache: query key -> status and data
    memo,            \* what the page's useMemo calls hold: deps and values
    toastTimers,     \* the setTimeout callbacks of showToast not yet run
    today,           \* new Date().toISOString().split('T')[0] of the panel
    authStore,       \* useAuthStore: user, isAdmin, isLoading
    inactivityTimer, \* let inactivityTimer: a timer id, 0 for null
    lastActivity,    \* let lastActivity, kept as Date.now() - lastActivity
    activityListenersAttached,  \* let activityListenersAttached
    initialized,     \* let initialized
    timers,          \* the pending setTimeout calls of startInactivityTimer
    supabase,        \* the auth client: its session and its calls in flight
    localStorage,    \* window.localStorage: key -> item
    stored,          \* what setItem last stored under a key, and how long ago
    returned,        \* the last ExpireStorage.getItem: its key and its result
    simStore         \* useSimulationStore

pageVars == <<visionData, kisData, kisAnalysis, loading, combinedStocks, data,
              marketFilter, matchFilters, signalFilters, queryCache, memo>>

panelVars == <<toastTimers, today>>

authVars == <<authStore, inactivityTimer, lastActivity,
              activityListenersAttached, initialized, timers, supabase>>

storageVars == <<localStorage, stored, returned>>

sessionVars == <<authVars, storageVars, simStore>>

vars == <<pageVars, uiStore, panelVars, sessionVars>>

filterVars == <<marketFilter, matchFilters, signalFilters>>

historyVars == <<uiStore, queryCache>>

snapshotVars == <<uiStore, queryCache, memo>>

----------------------------------------------------------------------------
(* Bounds *)

\* longest visionData.results list
MaxVision == 2

\* most toasts whose timeout has not run yet
MaxToasts == 1

\* the timer ids setTimeout hands out before it reuses one
MaxTimers == 2

\* most calls of one kind the auth client has in flight
MaxInFlight == 1

\* the dates the simulation index lists
MaxDates == 4

\* most stocks in a pre-merged snapshot
MaxStocks == 2

\* most options selected at once in the match-status or the signal filter
MaxSelected == 2

----------------------------------------------------------------------------
(* Values *)

\* a query result that is null or undefined (nothing loaded, 404, error)
Null == [isNull |-> TRUE]

\* an absent field of a record
Undefined == "undefined"

SIGNAL_TYPES == <<"strong_buy", "buy", "neutral", "sell", "strong_sell">>

SignalType == {SIGNAL_TYPES[i] : i \in 1..Len(SIGNAL_TYPES)}

MatchStatus == {"match", "partial", "mismatch", "vision-only", "api-only", "no_data"}

MarketType == {"all", "kospi", "kosdaq"}

\* what a JSON record may carry in its signal field: a known label, the
\* empty string (falsy) or a label the page does not know (truthy)
RawSignal == SignalType \cup {"", "hold"}

\* stock codes, as digit sequences; only the first digit is inspected
Codes == {<<0, 0, 5>>, <<3, 0, 1>>}

\* a JSON null in a field of the pre-merged snapshot
JSNull == "null"

\* JavaScript truthiness of a string | undefined | null
Truthy(v) == v \notin {Undefined, JSNull, ""}

signalLevel ==
    [s \in SignalType |->
        CASE s = "strong_buy" -> 2
          [] s = "buy" -> 1
          [] s = "neutral" -> 0
          [] s = "sell" -> -1
          [] s = "strong_sell" -> -2]

Abs(n) == IF n >= 0 THEN n ELSE 0 - n

\* Math.abs(signalLevel[a] - signalLevel[b]) <= n. A label signalLevel lacks
\* reads as undefined, the difference is then NaN and the comparison false.
DiffAtMost(a, b, n) ==
    /\ a \in DOMAIN signalLevel
    /\ b \in DOMAIN signalLevel
    /\ Abs(signalLevel[a] - signalLevel[b]) <= n

\* calculateMatchStatus with the tolerance of "partial" one level too wide
calculateMatchStatus_Wide(visionSignal, apiSignal) ==
    IF ~Truthy(visionSignal) /\ ~Truthy(apiSignal) THEN "mismatch"
    ELSE IF ~Truthy(visionSignal) THEN "api-only"
    ELSE IF ~Truthy(apiSignal) THEN "vision-only"
    ELSE IF visionSignal = apiSignal THEN "match"
    ELSE IF DiffAtMost(visionSignal, apiSignal, 2) THEN "partial"
    ELSE "mismatch"

\* calculateMatchStatus with the two single-source results exchanged
calculateMatchStatus_Swapped(visionSignal, apiSignal) ==
    IF ~Truthy(visionSignal) /\ ~Truthy(apiSignal) THEN "mismatch"
    ELSE IF ~Truthy(visionSignal) THEN "vision-only"
    ELSE IF ~Truthy(apiSignal) THEN "api-only"
    ELSE IF visionSignal = apiSignal THEN "match"
    ELSE IF DiffAtMost(visionSignal, apiSignal, 1) THEN "partial"
    ELSE "mismatch"

calculateMatchStatus(visionSignal, apiSignal) ==
    IF ~Truthy(visionSignal) /\ ~Truthy(apiSignal) THEN "mismatch"
    ELSE IF ~Truthy(visionSignal) THEN "api-only"
    ELSE IF ~Truthy(apiSignal) THEN "vision-only"
    ELSE IF visionSignal = apiSignal THEN "match"
    ELSE IF DiffAtMost(visionSignal, apiSignal, 1) THEN "partial"
    ELSE "mismatch"

calculateConfidence(matchStatus) ==
    CASE matchStatus = "match" -> 10
      [] matchStatus = "partial" -> 7
      [] matchStatus \in {"vision-only", "api-only"} -> 5
      [] matchStatus = "mismatch" -> 3
      [] OTHER -> 0

----------------------------------------------------------------------------
(* The merge of the three lists (combinedStocks memo) *)

\* stock.code.startsWith(d)
startsWith(code, d) == Len(code) > 0 /\ code[1] = d

\* A JavaScript Map kept as the sequence of its values in insertion order.
MapHas(stockMap, code) == \E i \in 1..Len(stockMap) : stockMap[i].code = code

MapIndex(stockMap, code) ==
    CHOOSE i \in 1..Len(stockMap) : stockMap[i].code = code

\* Map.set that never finds the key
MapSet_AlwaysAppend(stockMap, entry) == Append(stockMap, entry)

\* Map.set: a known key keeps its place, a new key goes last
MapSet(stockMap, entry) ==
    IF MapHas(stockMap, entry.code)
    THEN [stockMap EXCEPT ![MapIndex(stockMap, entry.code)] = entry]
    ELSE Append(stockMap, entry)

VisionEntry(stock) ==
    [code |-> stock.code,
     market |-> IF startsWith(stock.code, 3) \/ startsWith(stock.code, 4)
                THEN "KOSDAQ" ELSE "KOSPI",
     visionSignal |-> stock.signal,
     apiSignal |-> Undefined,
     apiData |-> Undefined,
     matchStatus |-> "vision-only",
     confidenceScore |-> 5]

RECURSIVE AddVision(_, _)
AddVision(stockMap, results) ==
    IF results = <<>> THEN stockMap
    ELSE AddVision(MapSet(stockMap, VisionEntry(Head(results))), Tail(results))

\* analysisMap.get(code)?.signal : the last record of the code wins
RECURSIVE AnalysisSignal(_, _)
AnalysisSignal(results, code) ==
    IF results = <<>> THEN Undefined
    ELSE IF results[Len(results)].code = code THEN results[Len(results)].signal
    ELSE AnalysisSignal(SubSeq(results, 1, Len(results) - 1), code)

MergedEntry(existing, stock, signal) ==
    LET status == calculateMatchStatus(existing.visionSignal, signal)
    IN [existing EXCEPT !.apiData = stock.market,
                        !.apiSignal = signal,
                        !.matchStatus = status,
                        !.confidenceScore = calculateConfidence(status)]

ApiEntry(stock, signal) ==
    [code |-> stock.code,
     market |-> stock.market,
     visionSignal |-> Undefined,
     apiSignal |-> signal,
     apiData |-> stock.market,
     matchStatus |-> IF Truthy(signal) THEN "api-only" ELSE "api-only",
     confidenceScore |-> IF Truthy(signal) THEN 5 ELSE 0]

RECURSIVE AddKIS(_, _, _)
AddKIS(stockMap, stocks, results) ==
    IF stocks = <<>> THEN stockMap
    ELSE LET stock == Head(stocks)
             signal == AnalysisSignal(results, stock.code)
             entry == IF MapHas(stockMap, stock.code)
                      THEN MergedEntry(stockMap[MapIndex(stockMap, stock.code)],
                                       stock, signal)
                      ELSE ApiEntry(stock, signal)
         IN AddKIS(MapSet(stockMap, entry), Tail(stocks), results)

mergeCombinedStocks(vd, kd, ka) ==
    LET afterVision == IF vd # Null THEN AddVision(<<>>, vd.results) ELSE <<>>
    IN IF kd # Null
       THEN AddKIS(afterVision, kd.stocks,
                   IF ka # Null THEN ka.results ELSE <<>>)
       ELSE afterVision

----------------------------------------------------------------------------
(* Filtering and sorting of the merging page *)

\* Array.prototype.filter
FilterSeq(s, Keep(_)) == SelectSeq(s, Keep)

\* Array.prototype.sort with the comparator (a, b) => Key(a) - Key(b). The sort
\* is stable: an element moves behind exactly the elements with a smaller key
\* and the earlier elements with an equal key.
StableSort(s, Key(_)) ==
    LET pos(i) == 1 + Cardinality({j \in 1..Len(s) :
                        \/ Key(s[j]) < Key(s[i])
                        \/ (Key(s[j]) = Key(s[i]) /\ j < i)})
    IN [p \in 1..Len(s) |-> s[CHOOSE i \in 1..Len(s) : pos(i) = p]]

\* the key of (a, b) => b.confidenceScore - a.confidenceScore
ByConfidenceDesc(s) == 0 - s.confidenceScore

toLowerCase(market) ==
    CASE market = "KOSPI" -> "kospi"
      [] market = "KOSDAQ" -> "kosdaq"
      [] market = "UNKNOWN" -> "unknown"
      [] OTHER -> market

NoFilter(mf, mfs, sfs) == mf = "all" /\ mfs = {} /\ sfs = {}

mergeFilteredStocks(cs, mf, mfs, sfs) ==
    LET MarketOk(s) == mf = "all" \/ toLowerCase(s.market) = mf
        MatchOk(s) == mfs = {} \/ s.matchStatus \in mfs
        SignalOk(s) == sfs = {}
                       \/ (Truthy(s.visionSignal) /\ s.visionSignal \in sfs)
                       \/ (Truthy(s.apiSignal) /\ s.apiSignal \in sfs)
        Keep(s) == MarketOk(s) /\ MatchOk(s) /\ SignalOk(s)
    IN StableSort(FilterSeq(cs, Keep), ByConfidenceDesc)

\* With no filter active "stocks" is the combinedStocks array itself, and
\* stocks.sort() reorders that array in place.
AfterRender(cs, mf, mfs, sfs) ==
    IF NoFilter(mf, mfs, sfs) THEN StableSort(cs, ByConfidenceDesc) ELSE cs

----------------------------------------------------------------------------
(* Statistics of the merging page *)

CountWhere(s, P(_)) == Cardinality({i \in 1..Len(s) : P(s[i])})

RECURSIVE SumConfidence(_)
SumConfidence(s) ==
    IF s = <<>> THEN 0 ELSE Head(s).confidenceScore + SumConfidence(Tail(s))

\* mergeStats whose switch lacks the 'api-only' case
mergeStats_NoApiOnly(cs) ==
    LET Is(st) == CountWhere(cs, LAMBDA s : s.matchStatus = st)
    IN [total |-> Len(cs), matched |-> Is("match"), partial |-> Is("partial"),
        mismatched |-> Is("mismatch"), visionOnly |-> Is("vision-only"),
        apiOnly |-> 0, avgConfidence |-> <<0, 1>>]

\* mergeStats taken over the filtered list
mergeStats_OverFiltered(cs) ==
    LET fs == mergeFilteredStocks(cs, marketFilter, matchFilters, signalFilters)
        Is(st) == CountWhere(fs, LAMBDA s : s.matchStatus = st)
    IN [total |-> Len(fs), matched |-> Is("match"), partial |-> Is("partial"),
        mismatched |-> Is("mismatch"), visionOnly |-> Is("vision-only"),
        apiOnly |-> Is("api-only"),
        avgConfidence |-> IF Len(fs) > 0 THEN <<SumConfidence(fs), Len(fs)>>
                          ELSE <<0, 1>>]

\* mergeStats without the guard of the average (totalConfidence / total)
mergeStats_NoGuard(cs) ==
    LET Is(st) == CountWhere(cs, LAMBDA s : s.matchStatus = st)
    IN [total |-> Len(cs), matched |-> Is("match"), partial |-> Is("partial"),
        mismatched |-> Is("mismatch"), visionOnly |-> Is("vision-only"),
        apiOnly |-> Is("api-only"),
        avgConfidence |-> <<SumConfidence(cs), Len(cs)>>]

mergeStats(cs) ==
    LET Is(st) == CountWhere(cs, LAMBDA s : s.matchStatus = st)
        total == Len(cs)
    IN [total |-> total,
        matched |-> Is("match"),
        partial |-> Is("partial"),
        mismatched |-> Is("mismatch"),
        visionOnly |-> Is("vision-only"),
        apiOnly |-> Is("api-only"),
        \* totalConfidence / total, kept as the pair (sum, count)
        avgConfidence |-> IF total > 0 THEN <<SumConfidence(cs), total>>
                          ELSE <<0, 1>>]

\* signals[s.visionSignal]++ ; the api signal only when it differs
mergeSignalCounts(cs) ==
    [level \in SignalType |->
        CountWhere(cs, LAMBDA s : Truthy(s.visionSignal) /\ s.visionSignal = level)
        + CountWhere(cs, LAMBDA s : Truthy(s.apiSignal)
                                    /\ s.apiSignal # s.visionSignal
                                    /\ s.apiSignal = level)]

\* the page shows statistics only past the loading and the empty-state returns
hasVisionData(vd) == vd # Null /\ Len(vd.results) > 0

hasKISData(kd) == kd # Null /\ Len(kd.stocks) > 0

\* the share of full matches shown next to the count: matched / total * 100,
\* kept as the pair (numerator, denominator)
matchedShare(st) == <<st.matched * 100, st.total>>

----------------------------------------------------------------------------
(* Inputs of the merging page *)

VisionRecord == [code : Codes, signal : RawSignal]

SeqsUpTo(S, n) == UNION {[1..k -> S] : k \in 0..n}

VisionLists == SeqsUpTo(VisionRecord, MaxVision)

\* the market the KIS table lists a code on
KISMarket(code) == IF code[1] = 3 THEN "KOSDAQ" ELSE "KOSPI"

KISStock == {[code |-> c, market |-> KISMarket(c)] : c \in Codes}

DistinctCodes(s) == \A i, j \in 1..Len(s) : i # j => s[i].code # s[j].code

\* Object.values(kisData.stocks): one record per key
KISTables == {s \in SeqsUpTo(KISStock, Cardinality(Codes)) : DistinctCodes(s)}

AnalysisRecord == [code : Codes, signal : RawSignal]

\* one analysis record per code, in the order of the stock table
CodeOrder(a, b) == a[1] < b[1]

AnalysisLists ==
    {s \in SeqsUpTo(AnalysisRecord, Cardinality(Codes)) :
        \A i, j \in 1..Len(s) : i < j => CodeOrder(s[i].code, s[j].code)}

----------------------------------------------------------------------------
(* The page over a pre-merged snapshot: filtered list and faceted counts *)

NoApiData == [isNull |-> TRUE]

ApiData(rank) == [ranking |-> [volume_rank |-> rank]]

\* the stocks a snapshot file may list (CombinedStock of services/types.ts)
StockPool ==
    { [market |-> "KOSPI", vision_signal |-> "strong_buy", api_signal |-> "strong_buy",
       match_status |-> "match", confidence |-> 10, api_data |-> ApiData(1)],
      [market |-> "KOSDAQ", vision_signal |-> "strong_buy", api_signal |-> "buy",
       match_status |-> "partial", confidence |-> 7, api_data |-> ApiData(1)],
      [market |-> "KOSDAQ", vision_signal |-> "buy", api_signal |-> "strong_sell",
       match_status |-> "mismatch", confidence |-> 3, api_data |-> ApiData(2)],
      [market |-> "KOSPI", vision_signal |-> "buy", api_signal |-> JSNull,
       match_status |-> "vision-only", confidence |-> 5, api_data |-> NoApiData],
      [market |-> "KOSDAQ", vision_signal |-> JSNull, api_signal |-> "strong_buy",
       match_status |-> "api-only", confidence |-> 5, api_data |-> ApiData(3)],
      [market |-> "UNKNOWN", vision_signal |-> JSNull, api_signal |-> JSNull,
       match_status |-> "no_data", confidence |-> 0, api_data |-> NoApiData] }

Snapshots == {[stocks |-> s] : s \in SeqsUpTo(StockPool, MaxStocks)}

\* a.api_data?.ranking?.volume_rank ?? Infinity
Infinity == 1 + Cardinality(StockPool)

\* RankOf with a missing rank read as 0 (?? 0 in place of ?? Infinity)
RankOf_MissingFirst(s) ==
    IF s.api_data = NoApiData THEN 0 ELSE s.api_data.ranking.volume_rank

RankOf(s) ==
    IF s.api_data = NoApiData THEN Infinity ELSE s.api_data.ranking.volume_rank

\* the market comparison without toLowerCase()
marketIs_CaseSensitive(s, mf) == s.market = mf

\* s.market.toLowerCase() === marketFilter
marketIs(s, mf) == toLowerCase(s.market) = mf

hasSignal(s, sfs) ==
    \/ (Truthy(s.vision_signal) /\ s.vision_signal \in sfs)
    \/ (Truthy(s.api_signal) /\ s.api_signal \in sfs)

hasMatch(s, mfs) == s.match_status \in mfs

\* filteredStocks whose signal filter looks at the vision signal alone
filteredStocks_VisionOnly(d, mf, mfs, sfs) ==
    IF d = Null THEN <<>>
    ELSE LET Keep(s) ==
                 /\ mf = "all" \/ marketIs(s, mf)
                 /\ mfs = {} \/ hasMatch(s, mfs)
                 /\ sfs = {} \/ (Truthy(s.vision_signal) /\ s.vision_signal \in sfs)
         IN StableSort(FilterSeq(d.stocks, Keep), RankOf)

filteredStocks(d, mf, mfs, sfs) ==
    IF d = Null THEN <<>>
    ELSE LET s0 == d.stocks
             s1 == IF mf # "all"
                   THEN FilterSeq(s0, LAMBDA s : marketIs(s, mf)) ELSE s0
             s2 == IF Cardinality(mfs) > 0
                   THEN FilterSeq(s1, LAMBDA s : hasMatch(s, mfs)) ELSE s1
             s3 == IF Cardinality(sfs) > 0
                   THEN FilterSeq(s2, LAMBDA s : hasSignal(s, sfs)) ELSE s2
         IN StableSort(s3, RankOf)

\* the base every count but the market count starts from
afterMarket(d, mf) ==
    IF mf # "all" THEN FilterSeq(d.stocks, LAMBDA s : marketIs(s, mf))
    ELSE d.stocks

\* matchCounts taken over the market base alone, the signal filter left out
matchCounts_NoSignal(d, mf, mfs, sfs) ==
    IF d = Null THEN [st \in MatchStatus |-> 0]
    ELSE [st \in MatchStatus |->
             CountWhere(afterMarket(d, mf), LAMBDA s : s.match_status = st)]

matchCounts(d, mf, mfs, sfs) ==
    IF d = Null THEN [st \in MatchStatus |-> 0]
    ELSE LET forMatch == IF Cardinality(sfs) > 0
                         THEN FilterSeq(afterMarket(d, mf),
                                        LAMBDA s : hasSignal(s, sfs))
                         ELSE afterMarket(d, mf)
         IN [st \in MatchStatus |->
                CountWhere(forMatch, LAMBDA s : s.match_status = st)]

signalCounts(d, mf, mfs, sfs) ==
    IF d = Null THEN [level \in SignalType |-> 0]
    ELSE LET forSignal == IF Cardinality(mfs) > 0
                          THEN FilterSeq(afterMarket(d, mf),
                                         LAMBDA s : hasMatch(s, mfs))
                          ELSE afterMarket(d, mf)
         IN [level \in SignalType |->
                CountWhere(forSignal, LAMBDA s : Truthy(s.vision_signal)
                                                 /\ s.vision_signal = level)
                + CountWhere(forSignal, LAMBDA s : Truthy(s.api_signal)
                                                   /\ s.api_signal = level)]

\* marketCounts as the older page computed them: "all" is the length of the
\* filtered list, the two markets are counted over every stock
marketCounts_Unfaceted(d, mf, mfs, sfs) ==
    IF d = Null THEN [all |-> 0, kospi |-> 0, kosdaq |-> 0]
    ELSE [all |-> Len(filteredStocks(d, mf, mfs, sfs)),
          kospi |-> CountWhere(d.stocks, LAMBDA s : s.market = "KOSPI"),
          kosdaq |-> CountWhere(d.stocks, LAMBDA s : s.market = "KOSDAQ")]

\* the base of the market counts without the signal filter
forMarket_MatchOnly(d, mfs, sfs) ==
    IF Cardinality(mfs) > 0
    THEN FilterSeq(d.stocks, LAMBDA s : hasMatch(s, mfs))
    ELSE d.stocks

\* the base of the market counts: match-status filter, then signal filter
forMarket(d, mfs, sfs) ==
    LET m1 == IF Cardinality(mfs) > 0
              THEN FilterSeq(d.stocks, LAMBDA s : hasMatch(s, mfs))
              ELSE d.stocks
    IN IF Cardinality(sfs) > 0
       THEN FilterSeq(m1, LAMBDA s : hasSignal(s, sfs))
       ELSE m1

marketCounts(d, mf, mfs, sfs) ==
    IF d = Null THEN [all |-> 0, kospi |-> 0, kosdaq |-> 0]
    ELSE LET fm == forMarket(d, mfs, sfs)
         IN [all |-> Len(fm),
             kospi |-> Len(FilterSeq(fm, LAMBDA s : s.market = "KOSPI")),
             kosdaq |-> Len(FilterSeq(fm, LAMBDA s : s.market = "KOSDAQ"))]

----------------------------------------------------------------------------
(* Snapshot selection: the UI store, the history panel and the query cache *)

\* the entries of the history index the panel lists (HistoryItemData)
historyIndex ==
    <<[date |-> "2026-02-04", time |-> "0700"],
      [date |-> "2026-02-03", time |-> ""],
      [date |-> "2026-02-04", time |-> "1300"]>>

\* the days the panel may be rendered on
Days == {historyIndex[i].date : i \in 1..Len(historyIndex)} \cup {"2026-02-05"}

\* the day of the last run of the index
IndexDay == "2026-02-04"

\* no history selected (viewingHistoryDateTime: null), no file name (null)
NoDateTime == <<>>

\* item.time ? `${item.date}_${item.time}` : item.date, as the sequence of
\* the parts of the string
getItemDateTime(item) ==
    IF item.time # "" THEN <<item.date, "_", item.time>> ELSE <<item.date>>

DateTimes == {getItemDateTime(historyIndex[i]) : i \in 1..Len(historyIndex)}

PageType == {"home", "simulation"}

AnalysisTab == {"vision", "api", "combined"}

\* activeSignal: null
NoSignal == "null"

initialUIStore ==
    [currentPage |-> "home",
     activeTab |-> "vision",
     activeMarket |-> "all",
     activeSignal |-> NoSignal,
     isHistoryPanelOpen |-> FALSE,
     isViewingHistory |-> FALSE,
     viewingHistoryDateTime |-> NoDateTime,
     isCompactView |-> FALSE,
     toast |-> [isVisible |-> FALSE, message |-> ""]]

\* setViewingHistory that sets the flag whatever it is given
setViewingHistory_FlagAlways(store, dateTime) ==
    [store EXCEPT !.isViewingHistory = TRUE,
                  !.viewingHistoryDateTime = dateTime]

\* setViewingHistory that records the key and forgets the flag
setViewingHistory_FlagUnset(store, dateTime) ==
    [store EXCEPT !.viewingHistoryDateTime = dateTime]

setViewingHistory(store, dateTime) ==
    [store EXCEPT !.isViewingHistory = (dateTime # NoDateTime),
                  !.viewingHistoryDateTime = dateTime]

\* viewingHistoryDateTime ? `<prefix>${viewingHistoryDateTime}.json` : null
historyFilename(prefix, viewingHistoryDateTime) ==
    IF viewingHistoryDateTime # NoDateTime
    THEN <<prefix>> \o viewingHistoryDateTime \o <<".json">>
    ELSE NoDateTime

LatestFile == <<"latest">>

QueryKeys ==
    {[name |-> n, file |-> LatestFile] :
        n \in {"combined", "kis-data", "kis-analysis", "vision"}}
    \cup {[name |-> "combined-history", file |-> historyFilename("combined_", dt)] :
            dt \in DateTimes}
    \cup {[name |-> "kis-history", file |-> historyFilename("kis_", dt)] :
            dt \in DateTimes}
    \cup {[name |-> "vision-history", file |-> historyFilename("vision_", dt)] :
            dt \in DateTimes}

\* a query that has not resolved has no data
emptyCache == [k \in QueryKeys |-> [status |-> "pending", data |-> Null]]

\* the stock of the pool with the given match status
PoolStock(status) == CHOOSE s \in StockPool : s.match_status = status

\* What the result files hold. The first history entry has a combined and a
\* vision archive and no KIS archive, the second a KIS archive only.
ResultFile(key) ==
    LET first == getItemDateTime(historyIndex[1])
        second == getItemDateTime(historyIndex[2])
    IN CASE key.name = "combined" ->
              [stocks |-> <<PoolStock("match"), PoolStock("mismatch")>>]
         [] key.name = "combined-history"
              /\ key.file = historyFilename("combined_", first) ->
              [stocks |-> <<PoolStock("partial"), PoolStock("api-only")>>]
         [] key.name = "kis-data" ->
              [stocks |-> <<[code |-> <<0, 0, 5>>, market |-> "KOSPI"]>>]
         [] key.name = "kis-analysis" ->
              [results |-> <<[code |-> <<0, 0, 5>>, signal |-> "buy"]>>]
         [] key.name = "kis-history"
              /\ key.file = historyFilename("kis_", second) ->
              [results |-> <<[code |-> <<3, 0, 1>>, signal |-> "sell"]>>]
         [] key.name = "vision" ->
              [results |-> <<[code |-> <<0, 0, 5>>, signal |-> "strong_buy"]>>]
         [] key.name = "vision-history"
              /\ key.file = historyFilename("vision_", first) ->
              [results |-> <<[code |-> <<3, 0, 1>>, signal |-> "neutral"]>>]
         [] OTHER -> Null

\* useQuery({queryKey: [name, file], enabled: !!file}).data
QueryData(cache, name, file) ==
    IF file = NoDateTime THEN Null ELSE cache[[name |-> name, file |-> file]].data

\* useQuery(...).isLoading
QueryLoading(cache, name, file) ==
    /\ file # NoDateTime
    /\ cache[[name |-> name, file |-> file]].status = "pending"

\* the file name handed to a history hook: isViewingHistory ? historyFilename : null
HistoryArg(store, prefix) ==
    IF store.isViewingHistory
    THEN historyFilename(prefix, store.viewingHistoryDateTime)
    ELSE NoDateTime

\* the selection that shows the latest data whenever the history has none
selectData_FallBack(isViewingHistory, historyData, latestData) ==
    IF isViewingHistory /\ historyData # Null THEN historyData ELSE latestData

\* isViewingHistory ? historyData : latestData
selectData(isViewingHistory, historyData, latestData) ==
    IF isViewingHistory THEN historyData ELSE latestData

\* what the page's two useMemo calls compute from their dependencies
Computed(d, mf, mfs, sfs) ==
    [deps |-> <<d, mf, mfs, sfs>>,
     filteredStocks |-> filteredStocks(d, mf, mfs, sfs),
     marketCounts |-> marketCounts(d, mf, mfs, sfs),
     signalCounts |-> signalCounts(d, mf, mfs, sfs),
     matchCounts |-> matchCounts(d, mf, mfs, sfs)]

\* useMemo whose dependency list lacks data
useMemo_FiltersOnly(last, d, mf, mfs, sfs) ==
    IF <<last.deps[2], last.deps[3], last.deps[4]>> = <<mf, mfs, sfs>>
    THEN last ELSE Computed(d, mf, mfs, sfs)

\* useMemo(..., [data, marketFilter, matchFilters, signalFilters]): the held
\* values are kept while no dependency changed
useMemo(last, d, mf, mfs, sfs) ==
    IF last.deps = <<d, mf, mfs, sfs>> THEN last ELSE Computed(d, mf, mfs, sfs)

\* the first render: no data yet, no filter selected
firstRender == Computed(Null, "all", {}, {})

FacetRender ==
    memo' = useMemo(memo, data', marketFilter', matchFilters', signalFilters')

\* the hooks of the three tabs: the data of the query they name
useCombinedData(cache) == QueryData(cache, "combined", LatestFile)

useCombinedHistoryData(cache, filename) ==
    QueryData(cache, "combined-history", filename)

useKISHistoryData(cache, filename) == QueryData(cache, "kis-history", filename)

useVisionData(cache) == QueryData(cache, "vision", LatestFile)

useHistoryData(cache, filename) == QueryData(cache, "vision-history", filename)

\* the combined tab: data and isLoading of CombinedAnalysis
pageData(store, cache) ==
    selectData(store.isViewingHistory,
               useCombinedHistoryData(cache, HistoryArg(store, "combined_")),
               useCombinedData(cache))

pageLoading(store, cache) ==
    IF store.isViewingHistory
    THEN QueryLoading(cache, "combined-history", HistoryArg(store, "combined_"))
    ELSE QueryLoading(cache, "combined", LatestFile)

\* what the combined tab returns: the spinner, the empty state or the results
pageView(store, cache) ==
    LET d == pageData(store, cache)
    IN IF pageLoading(store, cache) THEN "loading"
       ELSE IF d = Null \/ Len(d.stocks) = 0 THEN "empty"
       ELSE "results"

\* the API tab: analysisData, kisData and isLoading of APIAnalysis
analysisData(store, cache) ==
    selectData(store.isViewingHistory,
               useKISHistoryData(cache, HistoryArg(store, "kis_")),
               QueryData(cache, "kis-analysis", LatestFile))

apiKisData(store, cache) ==
    IF store.isViewingHistory THEN Null
    ELSE QueryData(cache, "kis-data", LatestFile)

apiLoading(store, cache) ==
    IF store.isViewingHistory
    THEN QueryLoading(cache, "kis-history", HistoryArg(store, "kis_"))
    ELSE \/ QueryLoading(cache, "kis-data", LatestFile)
         \/ QueryLoading(cache, "kis-analysis", LatestFile)

\* what the API tab returns
apiView(store, cache) ==
    IF apiLoading(store, cache) THEN "loading"
    ELSE IF store.isViewingHistory /\ analysisData(store, cache) = Null
         THEN "no-history-data"
    ELSE IF ~store.isViewingHistory /\ apiKisData(store, cache) = Null
         THEN "no-latest-data"
    ELSE "results"

\* the vision tab, selecting its list by the same key
visionTabData(store, cache) ==
    selectData(store.isViewingHistory,
               useHistoryData(cache, HistoryArg(store, "vision_")),
               useVisionData(cache))

----------------------------------------------------------------------------
(* The auth store and its inactivity timer (store/authStore) *)

(* Time is counted in units of ACTIVITY_THROTTLE_MS (30 seconds). A time
   stamp is kept as its distance from Date.now(): lastActivity holds
   Date.now() - lastActivity, a pending timer the time left until it runs, a
   stored item the time left until its expiry (negative once expired). *)

\* 30 * 1000 ms
ACTIVITY_THROTTLE_MS == 1

\* 60 * 60 * 1000 ms
INACTIVITY_TIMEOUT_MS == 120

\* 8 * 60 * 60 * 1000 ms
SESSION_DURATION_MS == 960

Member == [role |-> "user"]

Admin == [role |-> "admin"]

\* the users a session may belong to (User.app_metadata.role)
Users == {Member, Admin}

\* user?.app_metadata?.role === 'admin'
checkAdmin(user) == user # Null /\ user.role = "admin"

\* session?.user ?? null
userOf(session) == IF session = Null THEN Null ELSE session.user

Sessions == {[user |-> u] : u \in Users}

initialAuthStore ==
    [user |-> Null, session |-> Null, isLoading |-> TRUE, isAdmin |-> FALSE]

\* the ids setTimeout may return
TimerIds == 1..MaxTimers

PendingIds(pending) == {t.id : t \in pending}

\* clearInactivityTimer, on the pair of the handle and the pending timers
clearInactivityTimer(m) ==
    IF m.inactivityTimer # 0
    THEN [inactivityTimer |-> 0,
          timers |-> {t \in m.timers : t.id # m.inactivityTimer}]
    ELSE m

\* startInactivityTimer: setTimeout returns an id no pending timer has
startInactivityTimer(m) ==
    LET c == clearInactivityTimer(m)
        free == TimerIds \ PendingIds(c.timers)
        id == CHOOSE i \in free : \A j \in free : i <= j
    IN IF free = {} THEN c
       ELSE [inactivityTimer |-> id,
             timers |-> c.timers \cup {[id |-> id,
                                        remaining |-> INACTIVITY_TIMEOUT_MS]}]

----------------------------------------------------------------------------
(* ExpireStorage over window.localStorage (lib/expire-storage) *)

ADMIN_FLAG_KEY == "__session_is_admin__"

\* the key the auth client keeps its session under
SessionKey == "sb-auth-token"

StorageKeys == {SessionKey, ADMIN_FLAG_KEY}

\* the strings the auth client stores
StoredValues == {"session-1", "session-2"}

\* localStorage.getItem(key) === null
NoItem == [kind |-> "none", value |-> "", expire |-> 0]

\* a string that does not parse to a wrapped item
Text(raw) == [kind |-> "text", value |-> raw, expire |-> 0]

\* JSON.stringify({value, __expire__: expire})
Wrapped(value, expire) == [kind |-> "wrapped", value |-> value, expire |-> expire]

emptyStorage == [k \in StorageKeys |-> NoItem]

setAdmin(storage, flag) ==
    IF flag THEN [storage EXCEPT ![ADMIN_FLAG_KEY] = Text("1")]
    ELSE [storage EXCEPT ![ADMIN_FLAG_KEY] = NoItem]

isAdmin(storage) == storage[ADMIN_FLAG_KEY] = Text("1")

\* getItem that never looks at the expiry
getItem_NoExpiry(storage, key) ==
    IF storage[key].kind = "none"
    THEN [result |-> JSNull, storage |-> storage]
    ELSE [result |-> storage[key].value, storage |-> storage]

\* getItem: the string returned and the storage it leaves; Date.now() >
\* expire reads 0 > expire on the time left
getItem(storage, key) ==
    LET raw == storage[key]
    IN IF raw.kind = "none" THEN [result |-> JSNull, storage |-> storage]
       ELSE IF raw.kind = "wrapped"
            THEN IF isAdmin(storage)
                 THEN [result |-> raw.value, storage |-> storage]
                 ELSE IF 0 > raw.expire
                 THEN [result |-> JSNull,
                       storage |-> [storage EXCEPT ![key] = NoItem]]
                 ELSE [result |-> raw.value, storage |-> storage]
       ELSE [result |-> raw.value, storage |-> storage]

setItem(storage, key, value) ==
    [storage EXCEPT ![key] = Wrapped(value, SESSION_DURATION_MS)]

removeItem(storage, key) == [storage EXCEPT ![key] = NoItem]

\* nothing stored with setItem under the key
NotStored == [value |-> "", age |-> 0]

noneStored == [k \in StorageKeys |-> NotStored]

\* no call yet; ago tells whether time has passed since the call
noneReturned == [key |-> "", result |-> JSNull, ago |-> 0]

\* the same clock reading age times: t time units later
Later(n, t, cap) == IF n + t > cap THEN cap ELSE n + t

----------------------------------------------------------------------------
(* The simulation store (store/simulationStore) *)

(* A date is the rank of its ISO string in lexicographic order, 0 is null:
   [...dates].sort().reverse()[0] is the greatest. *)

Dates == 1..MaxDates

NoDate == 0

SimulationCategory == {"vision", "kis", "combined"}

Greatest(S) == CHOOSE d \in S : \A e \in S : e <= d

Range(seq) == {seq[i] : i \in 1..Len(seq)}

initialSimStore ==
    [activeCategories |-> SimulationCategory,
     selectedDates |-> {},
     activeDetailDate |-> NoDate]

toggleCategory(store, category) ==
    [store EXCEPT !.activeCategories =
        IF category \in @ THEN @ \ {category} ELSE @ \cup {category}]

\* toggleDate that leaves the detail date alone
toggleDate_KeepDetail(store, date) ==
    [store EXCEPT !.selectedDates =
        IF date \in @ THEN @ \ {date} ELSE @ \cup {date}]

toggleDate(store, date) ==
    LET next == IF date \in store.selectedDates
                THEN store.selectedDates \ {date}
                ELSE store.selectedDates \cup {date}
        activeDetail == IF date \in next THEN date
                        ELSE IF Cardinality(next) > 0 THEN Greatest(next)
                        ELSE NoDate
    IN [store EXCEPT !.selectedDates = next, !.activeDetailDate = activeDetail]

selectAllDates(store, dates) ==
    [store EXCEPT !.selectedDates = Range(dates),
                  !.activeDetailDate = IF Len(dates) > 0
                                       THEN Greatest(Range(dates)) ELSE NoDate]

deselectAllDates(store) ==
    [store EXCEPT !.selectedDates = {}, !.activeDetailDate = NoDate]

setActiveDetailDate(store, date) == [store EXCEPT !.activeDetailDate = date]

----------------------------------------------------------------------------
(* The state the modules are constructed in, nobody signed in *)

SessionInit ==
    /\ authStore = initialAuthStore
    /\ inactivityTimer = 0
    /\ lastActivity = 0
    /\ activityListenersAttached = FALSE
    /\ initialized = FALSE
    /\ timers = {}
    /\ localStorage = emptyStorage
    /\ stored = noneStored
    /\ returned = noneReturned
    /\ simStore = initialSimStore

\* the auth client with no session and no call in flight
idleClient ==
    [session |-> Null, signOuts |-> 0, initializing |-> 0, rechecking |-> 0]

SignedOutInit ==
    /\ SessionInit
    /\ supabase = idleClient
    /\ toastTimers = 0
    /\ today = IndexDay

----------------------------------------------------------------------------
(* SpecMerge: the three queries resolve in any order, each render merges *)

Queries == {"vision", "kis-data", "kis-analysis"}

InitMerge ==
    /\ visionData = Null
    /\ kisData = Null
    /\ kisAnalysis = Null
    /\ loading = Queries
    /\ combinedStocks = <<>>
    /\ data = Null
    /\ marketFilter = "all"
    /\ matchFilters = {}
    /\ signalFilters = {}
    /\ uiStore = initialUIStore
    /\ queryCache = emptyCache
    /\ memo = firstRender
    /\ SignedOutInit

Rerender(vd, kd, ka) ==
    combinedStocks' = AfterRender(mergeCombinedStocks(vd, kd, ka),
                                  marketFilter, matchFilters, signalFilters)

\* fetchLatestData resolves with one of the given lists
LoadVisionFrom(lists) ==
    /\ "vision" \in loading
    /\ loading' = loading \ {"vision"}
    /\ \E results \in lists : visionData' = [results |-> results]
    /\ Rerender(visionData', kisData, kisAnalysis)
    /\ UNCHANGED <<kisData, kisAnalysis, data, filterVars, snapshotVars, panelVars, sessionVars>>

LoadVision == LoadVisionFrom(VisionLists)

\* fetchKISData resolves: the table, or null on 404 or any error
LoadKISData ==
    /\ "kis-data" \in loading
    /\ loading' = loading \ {"kis-data"}
    /\ \/ \E stocks \in KISTables : kisData' = [stocks |-> stocks]
       \/ kisData' = Null
    /\ Rerender(visionData, kisData', kisAnalysis)
    /\ UNCHANGED <<visionData, kisAnalysis, data, filterVars, snapshotVars, panelVars, sessionVars>>

\* fetchKISAnalysis resolves: one of the given lists, or null on 404 or any
\* error
LoadKISAnalysisFrom(lists) ==
    /\ "kis-analysis" \in loading
    /\ loading' = loading \ {"kis-analysis"}
    /\ \/ \E results \in lists : kisAnalysis' = [results |-> results]
       \/ kisAnalysis' = Null
    /\ Rerender(visionData, kisData, kisAnalysis')
    /\ UNCHANGED <<visionData, kisData, data, filterVars, snapshotVars, panelVars, sessionVars>>

LoadKISAnalysis == LoadKISAnalysisFrom(AnalysisLists)

NextMerge == LoadVision \/ LoadKISData \/ LoadKISAnalysis

SpecMerge == InitMerge /\ [][NextMerge]_vars

----------------------------------------------------------------------------
(* SpecMergeFilter: the merging page with its filter bar. The lists carry a
   few of the labels, so that every filter state is reached on every merge. *)

FewVisionLists ==
    {s \in VisionLists : \A i \in 1..Len(s) : s[i].signal \in {"strong_buy", "sell"}}

FewAnalysisLists ==
    {s \in AnalysisLists : \A i \in 1..Len(s) : s[i].signal \in {"strong_buy", "buy"}}

\* past the loading spinner and the empty state the page renders the
\* statistics, the filter bar and the list
resultsShown == loading = {} /\ (hasVisionData(visionData) \/ hasKISData(kisData))

\* a filter handler ran: the memoized merge is kept, the filtered list is
\* computed again
RerenderFiltered ==
    combinedStocks' = AfterRender(combinedStocks,
                                  marketFilter', matchFilters', signalFilters')

setMarketFilterMerge(m) ==
    /\ resultsShown
    /\ marketFilter' = m
    /\ UNCHANGED <<matchFilters, signalFilters>>
    /\ RerenderFiltered
    /\ UNCHANGED <<visionData, kisData, kisAnalysis, loading, data, snapshotVars, panelVars, sessionVars>>

toggleMatchFilterMerge(status) ==
    /\ resultsShown
    /\ status \in matchFilters \/ Cardinality(matchFilters) < MaxSelected
    /\ matchFilters' = IF status \in matchFilters
                       THEN matchFilters \ {status}
                       ELSE matchFilters \cup {status}
    /\ UNCHANGED <<marketFilter, signalFilters>>
    /\ RerenderFiltered
    /\ UNCHANGED <<visionData, kisData, kisAnalysis, loading, data, snapshotVars, panelVars, sessionVars>>

toggleSignalFilterMerge(signal) ==
    /\ resultsShown
    /\ signal \in signalFilters \/ Cardinality(signalFilters) < MaxSelected
    /\ signalFilters' = IF signal \in signalFilters
                        THEN signalFilters \ {signal}
                        ELSE signalFilters \cup {signal}
    /\ UNCHANGED <<marketFilter, matchFilters>>
    /\ RerenderFiltered
    /\ UNCHANGED <<visionData, kisData, kisAnalysis, loading, data, snapshotVars, panelVars, sessionVars>>

clearAllFiltersMerge ==
    /\ resultsShown
    /\ matchFilters' = {}
    /\ signalFilters' = {}
    /\ UNCHANGED marketFilter
    /\ RerenderFiltered
    /\ UNCHANGED <<visionData, kisData, kisAnalysis, loading, data, snapshotVars, panelVars, sessionVars>>

NextMergeFilter ==
    \/ LoadVisionFrom(FewVisionLists)
    \/ LoadKISData
    \/ LoadKISAnalysisFrom(FewAnalysisLists)
    \/ \E m \in MarketType : setMarketFilterMerge(m)
    \/ \E status \in {"match", "vision-only"} : toggleMatchFilterMerge(status)
    \/ \E signal \in {"strong_buy"} : toggleSignalFilterMerge(signal)
    \/ clearAllFiltersMerge

SpecMergeFilter == InitMerge /\ [][NextMergeFilter]_vars

----------------------------------------------------------------------------
(* SpecFacet: the snapshot loads, then the user works the filters *)

FacetPageInit ==
    /\ visionData = Null
    /\ kisData = Null
    /\ kisAnalysis = Null
    /\ loading = {"combined"}
    /\ combinedStocks = <<>>
    /\ data = Null
    /\ marketFilter = "all"
    /\ matchFilters = {}
    /\ signalFilters = {}
    /\ uiStore = initialUIStore
    /\ queryCache = emptyCache
    /\ memo = firstRender

InitFacet == FacetPageInit /\ SignedOutInit

legacyVars == <<visionData, kisData, kisAnalysis, combinedStocks>>

\* useCombinedData resolves
LoadCombined ==
    /\ "combined" \in loading
    /\ loading' = {}
    /\ \E d \in Snapshots : data' = d
    /\ UNCHANGED <<legacyVars, filterVars, historyVars, panelVars, sessionVars>>
    /\ FacetRender

\* the filter bar is rendered only once the snapshot lists a stock
FiltersShown == loading = {} /\ data # Null /\ Len(data.stocks) > 0

setMarketFilter(m) ==
    /\ FiltersShown
    /\ marketFilter' = m
    /\ UNCHANGED <<legacyVars, loading, data, matchFilters, signalFilters>>
    /\ UNCHANGED <<historyVars, panelVars, sessionVars>>
    /\ FacetRender

toggleMatchFilter(status) ==
    /\ FiltersShown
    /\ status \in matchFilters \/ Cardinality(matchFilters) < MaxSelected
    /\ matchFilters' = IF status \in matchFilters
                       THEN matchFilters \ {status}
                       ELSE matchFilters \cup {status}
    /\ UNCHANGED <<legacyVars, loading, data, marketFilter, signalFilters>>
    /\ UNCHANGED <<historyVars, panelVars, sessionVars>>
    /\ FacetRender

toggleSignalFilter(signal) ==
    /\ FiltersShown
    /\ signal \in signalFilters \/ Cardinality(signalFilters) < MaxSelected
    /\ signalFilters' = IF signal \in signalFilters
                        THEN signalFilters \ {signal}
                        ELSE signalFilters \cup {signal}
    /\ UNCHANGED <<legacyVars, loading, data, marketFilter, matchFilters>>
    /\ UNCHANGED <<historyVars, panelVars, sessionVars>>
    /\ FacetRender

clearAllFilters ==
    /\ FiltersShown
    /\ matchFilters' = {}
    /\ signalFilters' = {}
    /\ UNCHANGED <<legacyVars, loading, data, marketFilter>>
    /\ UNCHANGED <<historyVars, panelVars, sessionVars>>
    /\ FacetRender

NextFacet ==
    \/ LoadCombined
    \/ \E m \in MarketType : setMarketFilter(m)
    \/ \E status \in MatchStatus : toggleMatchFilter(status)
    \/ \E signal \in SignalType : toggleSignalFilter(signal)
    \/ clearAllFilters

SpecFacet == InitFacet /\ [][NextFacet]_vars

----------------------------------------------------------------------------
(* SpecSnapshot: the user picks history entries and returns to the latest
   data while the queries of the three tabs resolve *)

\* every action ends with the render of the combined tab
SnapshotRender ==
    /\ data' = pageData(uiStore', queryCache')
    /\ loading' = IF pageLoading(uiStore', queryCache') THEN {"combined"} ELSE {}
    /\ FacetRender

openHistoryPanel ==
    /\ ~uiStore.isHistoryPanelOpen
    /\ uiStore' = [uiStore EXCEPT !.isHistoryPanelOpen = TRUE]
    /\ UNCHANGED <<legacyVars, filterVars, queryCache, panelVars, sessionVars>>
    /\ SnapshotRender

closeHistoryPanel ==
    /\ uiStore.isHistoryPanelOpen
    /\ uiStore' = [uiStore EXCEPT !.isHistoryPanelOpen = FALSE]
    /\ UNCHANGED <<legacyVars, filterVars, queryCache, panelVars, sessionVars>>
    /\ SnapshotRender

\* a click on an entry of the open panel
handleItemClick(item) ==
    /\ uiStore.isHistoryPanelOpen
    /\ uiStore' = [setViewingHistory(uiStore, getItemDateTime(item))
                      EXCEPT !.isHistoryPanelOpen = FALSE]
    /\ UNCHANGED <<legacyVars, filterVars, queryCache, panelVars, sessionVars>>
    /\ SnapshotRender

\* the button of the banner shown while a history entry is viewed
resetToLatest ==
    /\ uiStore.isViewingHistory
    /\ toastTimers < MaxToasts
    /\ uiStore' = [uiStore EXCEPT
                      !.isViewingHistory = FALSE,
                      !.viewingHistoryDateTime = NoDateTime,
                      !.isHistoryPanelOpen = FALSE,
                      !.activeMarket = "all",
                      !.activeSignal = NoSignal,
                      !.toast = [isVisible |-> TRUE,
                                 message |-> "latest data shown"]]
    /\ toastTimers' = toastTimers + 1
    /\ UNCHANGED <<legacyVars, filterVars, queryCache, today, sessionVars>>
    /\ SnapshotRender

\* the callback showToast handed to setTimeout runs
ToastTimeout ==
    /\ toastTimers > 0
    /\ toastTimers' = toastTimers - 1
    /\ uiStore' = [uiStore EXCEPT !.toast.isVisible = FALSE]
    /\ UNCHANGED <<legacyVars, filterVars, queryCache, today, sessionVars>>
    /\ SnapshotRender

\* a query is fetched while a mounted hook asks for it
QueryEnabled(store, key) ==
    \/ key.file = LatestFile
    \/ key.name = "combined-history" /\ key.file = HistoryArg(store, "combined_")
    \/ key.name = "kis-history" /\ key.file = HistoryArg(store, "kis_")
    \/ key.name = "vision-history" /\ key.file = HistoryArg(store, "vision_")

\* the fetch of a query returns: the file, or null when there is none
QueryResolves(key) ==
    /\ QueryEnabled(uiStore, key)
    /\ queryCache[key].status = "pending"
    /\ queryCache' = [queryCache EXCEPT
                        ![key] = [status |-> "success", data |-> ResultFile(key)]]
    /\ UNCHANGED <<legacyVars, filterVars, uiStore, panelVars, sessionVars>>
    /\ SnapshotRender

NextSnapshot ==
    \/ openHistoryPanel
    \/ closeHistoryPanel
    \/ \E i \in 1..2 : handleItemClick(historyIndex[i])
    \/ resetToLatest
    \/ ToastTimeout
    \/ \E key \in QueryKeys : QueryResolves(key)
    \/ \E m \in MarketType : setMarketFilter(m)
    \/ \E status \in {"match"} : toggleMatchFilter(status)
    \/ \E signal \in {"strong_buy"} : toggleSignalFilter(signal)
    \/ clearAllFilters

SpecSnapshot == InitFacet /\ [][NextSnapshot]_vars

----------------------------------------------------------------------------
(* SpecUIStore: every action of the UI store, and the history panel drawn
   from it on some day *)

\* a store action ran and the combined tab rendered again
StoreStep(store) ==
    /\ uiStore' = store
    /\ UNCHANGED <<legacyVars, filterVars, queryCache, panelVars, sessionVars>>
    /\ SnapshotRender

setCurrentPage(page) ==
    /\ page # uiStore.currentPage
    /\ StoreStep([uiStore EXCEPT !.currentPage = page])

setActiveTab(tab) ==
    /\ tab # uiStore.activeTab
    /\ StoreStep([uiStore EXCEPT !.activeTab = tab])

\* setMarketFilter of the store
setActiveMarket(market) ==
    /\ market # uiStore.activeMarket \/ uiStore.activeSignal # NoSignal
    /\ StoreStep([uiStore EXCEPT !.activeMarket = market,
                                 !.activeSignal = NoSignal])

\* setSignalFilter of the store
setActiveSignal(signal) ==
    /\ signal # uiStore.activeSignal
    /\ StoreStep([uiStore EXCEPT !.activeSignal = signal])

\* toggleSignalFilter of the store
toggleActiveSignal(signal) ==
    StoreStep([uiStore EXCEPT !.activeSignal =
                  IF @ = signal THEN NoSignal ELSE signal])

clearSignalFilter ==
    /\ uiStore.activeSignal # NoSignal
    /\ StoreStep([uiStore EXCEPT !.activeSignal = NoSignal])

\* setViewingHistory called with a key of the index or with null
callSetViewingHistory(dateTime) ==
    /\ dateTime # uiStore.viewingHistoryDateTime
    /\ StoreStep(setViewingHistory(uiStore, dateTime))

hideToast ==
    /\ uiStore.toast.isVisible
    /\ StoreStep([uiStore EXCEPT !.toast.isVisible = FALSE])

toggleCompactView ==
    StoreStep([uiStore EXCEPT !.isCompactView = ~@])

\* isActive of a HistoryItem of the panel
isActive(store, day, item) ==
    IF store.isViewingHistory
    THEN store.viewingHistoryDateTime = getItemDateTime(item)
    ELSE item.date = day

InitUIStore ==
    /\ FacetPageInit
    /\ SessionInit
    /\ supabase = idleClient
    /\ toastTimers = 0
    /\ today \in Days

NextUIStore ==
    \/ \E page \in PageType : setCurrentPage(page)
    \/ \E tab \in AnalysisTab : setActiveTab(tab)
    \/ \E market \in MarketType : setActiveMarket(market)
    \/ \E signal \in {"strong_buy", "sell", NoSignal} : setActiveSignal(signal)
    \/ \E signal \in {"strong_buy", "sell"} : toggleActiveSignal(signal)
    \/ clearSignalFilter
    \/ openHistoryPanel
    \/ closeHistoryPanel
    \/ \E i \in 1..Len(historyIndex) : handleItemClick(historyIndex[i])
    \/ \E dateTime \in DateTimes \cup {NoDateTime} : callSetViewingHistory(dateTime)
    \/ resetToLatest
    \/ ToastTimeout
    \/ hideToast
    \/ toggleCompactView

SpecUIStore == InitUIStore /\ [][NextUIStore]_vars

----------------------------------------------------------------------------
(* SpecSimulation: the date selector and the category toggles work the
   simulation store *)

SimStep(store) ==
    /\ simStore' = store
    /\ UNCHANGED <<pageVars, uiStore, panelVars, authVars, storageVars>>

\* the check box of a date card
checkboxClick(date) == SimStep(toggleDate(simStore, date))

\* the date card itself: if (!isSelected) toggleDate(date);
\* setActiveDetailDate(date)
cardClick(date) ==
    LET isSelected == date \in simStore.selectedDates
        toggled == IF ~isSelected THEN toggleDate(simStore, date) ELSE simStore
    IN /\ simStore.activeDetailDate # date
       /\ SimStep(setActiveDetailDate(toggled, date))

\* the select-all button and the effect of the page, with the dates of the
\* index
selectAllClick(dates) ==
    /\ simStore.selectedDates # Range(dates)
    /\ SimStep(selectAllDates(simStore, dates))

deselectAllClick ==
    /\ simStore.selectedDates # {}
    /\ SimStep(deselectAllDates(simStore))

categoryClick(category) == SimStep(toggleCategory(simStore, category))

NextSimulation ==
    \/ \E date \in Dates : checkboxClick(date)
    \/ \E date \in Dates : cardClick(date)
    \/ \E dates \in SeqsUpTo(Dates, MaxDates) : selectAllClick(dates)
    \/ deselectAllClick
    \/ \E category \in SimulationCategory : categoryClick(category)

SpecSimulation == InitFacet /\ [][NextSimulation]_vars

----------------------------------------------------------------------------
(* SpecStorage: the auth client and the auth store call ExpireStorage while
   time passes *)

\* one time unit passes; a timer that is due runs first
Elapse ==
    /\ \A t \in timers : t.remaining > 0
    /\ timers' = {[t EXCEPT !.remaining = @ - 1] : t \in timers}
    /\ lastActivity' = Later(lastActivity, 1, INACTIVITY_TIMEOUT_MS + 1)
    /\ localStorage' =
         [k \in StorageKeys |->
            IF localStorage[k].kind = "wrapped" /\ localStorage[k].expire >= 0
            THEN [localStorage[k] EXCEPT !.expire = @ - 1]
            ELSE localStorage[k]]
    /\ stored' =
         [k \in StorageKeys |->
            IF stored[k] = NotStored THEN NotStored
            ELSE [stored[k] EXCEPT !.age = Later(@, 1, SESSION_DURATION_MS + 1)]]
    /\ returned' = [returned EXCEPT !.ago = Later(@, 1, 1)]
    /\ UNCHANGED <<pageVars, uiStore, panelVars, simStore>>
    /\ UNCHANGED <<authStore, inactivityTimer, activityListenersAttached,
                   initialized, supabase>>

StorageStep ==
    UNCHANGED <<pageVars, uiStore, panelVars, simStore, authVars>>

\* what is still stored with setItem once the storage reads as given
StillStored(storage) ==
    [k \in StorageKeys |->
        IF storage[k].kind = "wrapped" THEN stored[k] ELSE NotStored]

setItemCall(key, value) ==
    /\ localStorage' = setItem(localStorage, key, value)
    /\ stored' = [stored EXCEPT ![key] = [value |-> value, age |-> 0]]
    /\ UNCHANGED returned
    /\ StorageStep

getItemCall(key) ==
    LET got == getItem(localStorage, key)
    IN /\ localStorage' = got.storage
       /\ returned' = [key |-> key, result |-> got.result, ago |-> 0]
       /\ stored' = StillStored(got.storage)
       /\ StorageStep

removeItemCall(key) ==
    /\ localStorage[key] # NoItem
    /\ localStorage' = removeItem(localStorage, key)
    /\ stored' = StillStored(localStorage')
    /\ UNCHANGED returned
    /\ StorageStep

setAdminCall(flag) ==
    /\ flag # isAdmin(localStorage)
    /\ localStorage' = setAdmin(localStorage, flag)
    /\ stored' = StillStored(localStorage')
    /\ UNCHANGED returned
    /\ StorageStep

NextStorage ==
    \/ Elapse
    \/ \E value \in StoredValues : setItemCall(SessionKey, value)
    \/ \E key \in StorageKeys : getItemCall(key)
    \/ \E key \in StorageKeys : removeItemCall(key)
    \/ \E flag \in BOOLEAN : setAdminCall(flag)

SpecStorage == InitFacet /\ [][NextStorage]_vars

----------------------------------------------------------------------------
(* SpecAuth: the app initializes the auth store; the auth client reports
   its events, the user is active or idle, the tab is hidden and shown, and
   time passes. A call of the auth client is in flight from the await to the
   step that resumes after it. *)

AuthFrame == UNCHANGED <<pageVars, uiStore, panelVars, simStore, returned>>

\* the handle and the pending timers, for the timer functions
TimerState == [inactivityTimer |-> inactivityTimer, timers |-> timers]

SetTimerState(m) ==
    /\ inactivityTimer' = m.inactivityTimer
    /\ timers' = m.timers

\* lastActivity = Date.now(); startInactivityTimer(); attachActivityListeners()
StartWatching ==
    /\ lastActivity' = 0
    /\ SetTimerState(startInactivityTimer(TimerState))
    /\ activityListenersAttached' = TRUE

\* clearInactivityTimer(); detachActivityListeners()
StopWatching ==
    /\ SetTimerState(clearInactivityTimer(TimerState))
    /\ activityListenersAttached' = FALSE
    /\ UNCHANGED lastActivity

\* ExpireStorage.setAdmin(flag) on localStorage
SyncAdmin(flag) ==
    /\ localStorage' = setAdmin(localStorage, flag)
    /\ stored' = StillStored(localStorage')

\* initialize() is called when the app mounts and waits for getSession()
initializeCall ==
    /\ authStore.isLoading
    /\ supabase.initializing < MaxInFlight
    /\ supabase' = [supabase EXCEPT !.initializing = @ + 1]
    /\ UNCHANGED <<authStore, inactivityTimer, lastActivity,
                   activityListenersAttached, initialized, timers, storageVars>>
    /\ AuthFrame

\* getSession() has answered: the rest of initialize()
initializeResume ==
    LET session == supabase.session
        user == userOf(session)
        admin == checkAdmin(user)
    IN /\ supabase.initializing > 0
       /\ supabase' = [supabase EXCEPT !.initializing = @ - 1]
       /\ SyncAdmin(admin)
       /\ authStore' = [session |-> session, user |-> user,
                        isLoading |-> FALSE, isAdmin |-> admin]
       /\ IF user # Null /\ ~admin
          THEN StartWatching
          ELSE UNCHANGED <<inactivityTimer, timers, lastActivity,
                           activityListenersAttached>>
       /\ initialized' = TRUE
       /\ AuthFrame

\* the callback handed to onAuthStateChange
onAuthStateChange(event, session) ==
    LET user == userOf(session)
        admin == checkAdmin(user)
    IN /\ SyncAdmin(IF event = "SIGNED_OUT" THEN FALSE ELSE admin)
       /\ authStore' = [authStore EXCEPT !.session = session, !.user = user,
                                         !.isAdmin = admin]
       /\ IF event = "SIGNED_OUT" THEN StopWatching
          ELSE IF user # Null /\ ~admin THEN StartWatching
          ELSE StopWatching
       /\ UNCHANGED initialized
       /\ AuthFrame

\* the auth client calls its subscriber, if initialize() has registered one
Notify(event, session) ==
    IF initialized THEN onAuthStateChange(event, session)
    ELSE /\ UNCHANGED <<authStore, inactivityTimer, lastActivity,
                        activityListenersAttached, initialized, timers,
                        storageVars>>
         /\ AuthFrame

\* signInWithPassword succeeds
SignedIn(user) ==
    /\ supabase.session = Null
    /\ supabase' = [supabase EXCEPT !.session = [user |-> user]]
    /\ Notify("SIGNED_IN", [user |-> user])

\* autoRefreshToken: the client renews the token of its session
TokenRefreshed ==
    /\ supabase.session # Null
    /\ initialized
    /\ UNCHANGED supabase
    /\ Notify("TOKEN_REFRESHED", supabase.session)

\* a mousedown, keydown, scroll or touchstart reaches handleActivity
handleActivity ==
    /\ activityListenersAttached
    /\ lastActivity > ACTIVITY_THROTTLE_MS
    /\ lastActivity' = 0
    /\ SetTimerState(startInactivityTimer(TimerState))
    /\ UNCHANGED <<authStore, activityListenersAttached, initialized,
                   supabase, storageVars>>
    /\ AuthFrame

\* a pending timer is due: its callback calls supabase.auth.signOut()
TimerFires ==
    \E t \in timers :
        /\ t.remaining = 0
        /\ timers' = timers \ {t}
        /\ supabase' = [supabase EXCEPT
                           !.signOuts = IF @ < MaxInFlight THEN @ + 1 ELSE @]
        /\ UNCHANGED <<authStore, inactivityTimer, lastActivity,
                       activityListenersAttached, initialized, storageVars>>
        /\ AuthFrame

\* signOut() of the store, up to its await
signOut ==
    /\ authStore.user # Null
    /\ supabase.signOuts < MaxInFlight
    /\ StopWatching
    /\ supabase' = [supabase EXCEPT !.signOuts = @ + 1]
    /\ UNCHANGED <<authStore, initialized, storageVars>>
    /\ AuthFrame

\* supabase.auth.signOut() removed the session and reports SIGNED_OUT
signOutSucceeds ==
    /\ supabase.signOuts > 0
    /\ supabase' = [supabase EXCEPT !.signOuts = @ - 1, !.session = Null]
    /\ Notify("SIGNED_OUT", Null)

\* supabase.auth.signOut() could not reach the server: it returns an error,
\* keeps the session and reports nothing
signOutFails ==
    /\ supabase.signOuts > 0
    /\ supabase.session # Null
    /\ supabase' = [supabase EXCEPT !.signOuts = @ - 1]
    /\ UNCHANGED <<authStore, inactivityTimer, lastActivity,
                   activityListenersAttached, initialized, timers, storageVars>>
    /\ AuthFrame

\* the stored session of a user who is no admin has expired in
\* ExpireStorage: the client has no session any more and reports nothing
SessionExpires ==
    /\ supabase.session # Null
    /\ ~isAdmin(localStorage)
    /\ supabase' = [supabase EXCEPT !.session = Null]
    /\ UNCHANGED <<authStore, inactivityTimer, lastActivity,
                   activityListenersAttached, initialized, timers, storageVars>>
    /\ AuthFrame

\* the tab becomes visible: the handler asks for the session again
visibilitychange ==
    /\ initialized
    /\ authStore.user # Null /\ ~authStore.isAdmin
    /\ supabase.rechecking < MaxInFlight
    /\ supabase' = [supabase EXCEPT !.rechecking = @ + 1]
    /\ UNCHANGED <<authStore, inactivityTimer, lastActivity,
                   activityListenersAttached, initialized, timers, storageVars>>
    /\ AuthFrame

\* getSession() of the visibility handler has answered
visibilityResume ==
    /\ supabase.rechecking > 0
    /\ supabase' = [supabase EXCEPT !.rechecking = @ - 1]
    /\ IF supabase.session = Null
       THEN /\ authStore' = [authStore EXCEPT !.session = Null, !.user = Null,
                                              !.isAdmin = FALSE]
            /\ StopWatching
       ELSE UNCHANGED <<authStore, inactivityTimer, timers, lastActivity,
                        activityListenersAttached>>
    /\ UNCHANGED <<initialized, storageVars>>
    /\ AuthFrame

InitAuth ==
    /\ FacetPageInit
    /\ SessionInit
    /\ toastTimers = 0
    /\ today = IndexDay
    /\ \E session \in Sessions \cup {Null} :
          supabase = [idleClient EXCEPT !.session = session]

NextAuth ==
    \/ initializeCall
    \/ initializeResume
    \/ \E user \in Users : SignedIn(user)
    \/ TokenRefreshed
    \/ handleActivity
    \/ TimerFires
    \/ signOut
    \/ signOutSucceeds
    \/ signOutFails
    \/ SessionExpires
    \/ visibilitychange
    \/ visibilityResume
    \/ Elapse

SpecAuth == InitAuth /\ [][NextAuth]_vars

\* time passes, and a timer that is due runs
SpecAuthLive ==
    /\ SpecAuth
    /\ WF_vars(Elapse)
    /\ WF_vars(TimerFires)

----------------------------------------------------------------------------
(* Properties of the merge (checked under SpecMerge). The refuted statements
   are read once all three queries have resolved, when the page shows the
   merged list. *)

Merged == 1..Len(combinedStocks)

BothKnown(s) == s.visionSignal \in SignalType /\ s.apiSignal \in SignalType

Distance(s) == Abs(signalLevel[s.visionSignal] - signalLevel[s.apiSignal])

\* C1: a merged stock whose two signals are both one of the five known labels
\* is "match" exactly when the ordinal distance of the two levels is 0,
\* "partial" exactly when it is 1 and "mismatch" exactly when it is 2 or more.
C1_DistanceRule ==
    \A i \in Merged :
        LET s == combinedStocks[i]
        IN BothKnown(s) =>
            /\ (s.matchStatus = "match") <=> (Distance(s) = 0)
            /\ (s.matchStatus = "partial") <=> (Distance(s) = 1)
            /\ (s.matchStatus = "mismatch") <=> (Distance(s) >= 2)

C1_Witness ==
    /\ \E i \in Merged : BothKnown(combinedStocks[i])
                         /\ Distance(combinedStocks[i]) = 1
                         /\ combinedStocks[i].matchStatus = "partial"
    /\ \E i \in Merged : BothKnown(combinedStocks[i])
                         /\ Distance(combinedStocks[i]) >= 2
                         /\ combinedStocks[i].matchStatus = "mismatch"

\* C2: a merged stock for which neither the vision list nor the analysis list
\* has a record is classified no_data.
C2_NoDataWhenNeither ==
    loading = {} =>
    \A i \in Merged :
        LET s == combinedStocks[i]
        IN (s.visionSignal = Undefined /\ s.apiSignal = Undefined)
            => s.matchStatus = "no_data"

\* C3: for every merged stock, match implies both signals present with equal
\* levels, partial implies both present at distance 1, mismatch implies both
\* present at distance 2 or more, no_data implies neither present.
C3_StatusImpliesInputs ==
    loading = {} =>
    \A i \in Merged :
        LET s == combinedStocks[i]
            both == Truthy(s.visionSignal) /\ Truthy(s.apiSignal)
        IN /\ s.matchStatus = "match" => both /\ DiffAtMost(s.visionSignal, s.apiSignal, 0)
           /\ s.matchStatus = "partial"
                => both /\ DiffAtMost(s.visionSignal, s.apiSignal, 1)
                        /\ ~DiffAtMost(s.visionSignal, s.apiSignal, 0)
           /\ s.matchStatus = "mismatch"
                => both /\ BothKnown(s) /\ Distance(s) >= 2
           /\ s.matchStatus = "no_data"
                => ~Truthy(s.visionSignal) /\ ~Truthy(s.apiSignal)

\* the confidence the specification assigns to a status, in tenths
ConfidenceTable(status) ==
    CASE status = "match" -> 10
      [] status = "partial" -> 7
      [] status \in {"vision-only", "api-only"} -> 5
      [] status = "mismatch" -> 3
      [] status = "no_data" -> 0

\* C4: confidence is a function of the match status alone: two merged stocks
\* of the same status have the same confidence, and it is 1.0 for match, 0.7
\* for partial, 0.5 for vision-only and api-only, 0.3 for mismatch, 0 for no_data.
C4_ConfidenceByStatus ==
    loading = {} =>
    /\ \A i, j \in Merged :
          combinedStocks[i].matchStatus = combinedStocks[j].matchStatus
            => combinedStocks[i].confidenceScore = combinedStocks[j].confidenceScore
    /\ \A i \in Merged :
          combinedStocks[i].confidenceScore
            = ConfidenceTable(combinedStocks[i].matchStatus)

CodesOf(list) == {list[i].code : i \in 1..Len(list)}

VisionCodes == IF visionData = Null THEN {} ELSE CodesOf(visionData.results)
TableCodes == IF kisData = Null THEN {} ELSE CodesOf(kisData.stocks)
AnalysisCodes == IF kisAnalysis = Null THEN {} ELSE CodesOf(kisAnalysis.results)

NoCodeTwice ==
    \A i, j \in Merged : i # j => combinedStocks[i].code # combinedStocks[j].code

\* C6 as stated: the merged collection holds every code of the stock table, of
\* the vision list and of the analysis list exactly once.
C6_EveryListedStock ==
    loading = {} =>
    /\ CodesOf(combinedStocks) = VisionCodes \cup TableCodes \cup AnalysisCodes
    /\ NoCodeTwice

\* C6 as amended: the merged collection holds every code of the stock table
\* and of the vision list exactly once, and no other code; a code that only
\* the analysis list names is not merged.
C6_OnePerUniverseEntry ==
    /\ CodesOf(combinedStocks) = VisionCodes \cup TableCodes
    /\ NoCodeTwice

C6_Witness ==
    /\ loading = {}
    /\ visionData # Null /\ Len(visionData.results) = 2
    /\ visionData.results[1].code = visionData.results[2].code
    /\ ~(AnalysisCodes \subseteq CodesOf(combinedStocks))
    /\ Len(combinedStocks) = 1

\* C7: the per-status counts of the unfiltered collection add up to the
\* reported total, which is the number of stocks of the universe.
C7_Partition ==
    LET st == mergeStats(combinedStocks)
    IN /\ st.matched + st.partial + st.mismatched + st.visionOnly + st.apiOnly
            = st.total
       /\ st.total = Cardinality(VisionCodes \cup TableCodes)

C7_Witness ==
    LET st == mergeStats(combinedStocks)
    IN st.total = 2 /\ st.apiOnly = 1 /\ st.matched + st.partial + st.mismatched = 1

\* C9 (merging page): the count of a signal level is the number of
\* (stock, source) pairs carrying it, so a stock whose two signals are both
\* "buy" adds 2 to "buy".
C9_OccurrencesMerged ==
    loading = {} =>
    \A level \in SignalType :
        mergeSignalCounts(combinedStocks)[level]
          = Cardinality({i \in Merged : combinedStocks[i].visionSignal = level})
            + Cardinality({i \in Merged : combinedStocks[i].apiSignal = level})

\* the records of a list that carry one of the five known labels
Usable(results) == SelectSeq(results, LAMBDA r : r.signal \in SignalType)

WithoutInvalid(q) == IF q = Null THEN Null ELSE [results |-> Usable(q.results)]

\* the merge of the same inputs with every record of an unknown label absent
MergedWithoutInvalid ==
    mergeCombinedStocks(WithoutInvalid(visionData), kisData,
                        WithoutInvalid(kisAnalysis))

\* C15: a record whose signal is not one of the five labels has the effect of
\* an absent record: every merged stock has the match status and the
\* confidence it has when such records are left out of the two lists, and the
\* five signal buckets count the same.
C15_InvalidAsAbsent ==
    loading = {} =>
    /\ \A i \in Merged : \A j \in 1..Len(MergedWithoutInvalid) :
          combinedStocks[i].code = MergedWithoutInvalid[j].code =>
            /\ combinedStocks[i].matchStatus = MergedWithoutInvalid[j].matchStatus
            /\ combinedStocks[i].confidenceScore
                 = MergedWithoutInvalid[j].confidenceScore
    /\ mergeSignalCounts(combinedStocks) = mergeSignalCounts(MergedWithoutInvalid)

\* C16: when the vision list or the analysis list is unavailable the merge
\* still yields a stock per code, classified by the records that remain:
\* api-only or no_data without the vision list, vision-only or no_data
\* without the analysis list.
C16_MissingListAsEmpty ==
    loading = {} =>
    /\ CodesOf(combinedStocks) = VisionCodes \cup TableCodes
    /\ visionData = Null =>
          \A i \in Merged :
              combinedStocks[i].matchStatus
                = IF combinedStocks[i].apiSignal # Undefined
                  THEN "api-only" ELSE "no_data"
    /\ kisAnalysis = Null =>
          \A i \in Merged :
              combinedStocks[i].matchStatus
                = IF combinedStocks[i].visionSignal # Undefined
                  THEN "vision-only" ELSE "no_data"

\* C19: the merged collection is left as the merge produced it: rendering the
\* filtered and sorted list changes neither its members nor their order.
C19_NeverMutated ==
    combinedStocks = mergeCombinedStocks(visionData, kisData, kisAnalysis)

\* every state the three filters can be in
FilterStates ==
    {f \in [market : MarketType, match : SUBSET MatchStatus,
            signal : SUBSET SignalType] :
        Cardinality(f.match) <= MaxSelected /\ Cardinality(f.signal) <= MaxSelected}

StatsShown == loading = {} /\ (hasVisionData(visionData) \/ hasKISData(kisData))

\* C17: with no stock merged every count is 0, the average confidence is 0
\* and the filtered list is empty in every filter state; the same holds of the
\* snapshot page without a snapshot or with an empty one. No quotient the page
\* computes or shows has the denominator 0.
C17_EmptyUniverse ==
    LET st == mergeStats(combinedStocks)
    IN /\ st.avgConfidence[2] # 0
       /\ StatsShown => matchedShare(st)[2] # 0
       /\ combinedStocks = <<>> =>
            /\ st = [total |-> 0, matched |-> 0, partial |-> 0, mismatched |-> 0,
                     visionOnly |-> 0, apiOnly |-> 0, avgConfidence |-> <<0, 1>>]
            /\ mergeSignalCounts(combinedStocks) = [l \in SignalType |-> 0]
            /\ \A f \in FilterStates :
                  mergeFilteredStocks(combinedStocks, f.market, f.match, f.signal)
                    = <<>>
            /\ \A d \in {Null, [stocks |-> <<>>]} : \A f \in FilterStates :
                  /\ filteredStocks(d, f.market, f.match, f.signal) = <<>>
                  /\ marketCounts(d, f.market, f.match, f.signal)
                       = [all |-> 0, kospi |-> 0, kosdaq |-> 0]
                  /\ matchCounts(d, f.market, f.match, f.signal)
                       = [s \in MatchStatus |-> 0]
                  /\ signalCounts(d, f.market, f.match, f.signal)
                       = [l \in SignalType |-> 0]

\* every query has resolved and nothing was merged
C17_Witness ==
    /\ loading = {}
    /\ visionData # Null /\ kisData # Null /\ kisAnalysis # Null
    /\ Len(kisAnalysis.results) > 0
    /\ combinedStocks = <<>>

----------------------------------------------------------------------------
(* Properties of the merging page's statistics under its filters (checked
   under SpecMergeFilter) *)

MergeFiltered ==
    mergeFilteredStocks(combinedStocks, marketFilter, matchFilters, signalFilters)

StatusCount(list, status) ==
    Cardinality({i \in 1..Len(list) : list[i].matchStatus = status})

\* C14 as stated: the statistics are those of the filtered list: the total is
\* its length, each per-status count the number of its stocks of that status.
C14_StatsOverFiltered ==
    resultsShown =>
        LET st == mergeStats(combinedStocks)
        IN /\ st.total = Len(MergeFiltered)
           /\ st.matched = StatusCount(MergeFiltered, "match")
           /\ st.partial = StatusCount(MergeFiltered, "partial")
           /\ st.mismatched = StatusCount(MergeFiltered, "mismatch")
           /\ st.visionOnly = StatusCount(MergeFiltered, "vision-only")
           /\ st.apiOnly = StatusCount(MergeFiltered, "api-only")

\* the merge of the loaded inputs, before any rendering
FreshMerge == mergeCombinedStocks(visionData, kisData, kisAnalysis)

\* C14 as amended: in every filter state the statistics are those of the
\* full merged collection: the total is the number of merged stocks, each
\* per-status count the number of merged stocks of that status, and the
\* average is the sum of all confidences over that total.
C14_StatsOverFull ==
    LET st == mergeStats(combinedStocks)
    IN /\ st.total = Cardinality(VisionCodes \cup TableCodes)
       /\ st.matched = StatusCount(FreshMerge, "match")
       /\ st.partial = StatusCount(FreshMerge, "partial")
       /\ st.mismatched = StatusCount(FreshMerge, "mismatch")
       /\ st.visionOnly = StatusCount(FreshMerge, "vision-only")
       /\ st.apiOnly = StatusCount(FreshMerge, "api-only")
       /\ st.total > 0 => st.avgConfidence = <<SumConfidence(FreshMerge), st.total>>

\* a filter hides one of two merged stocks and the total still reads 2
C14_Witness ==
    /\ resultsShown
    /\ matchFilters = {"match"}
    /\ Len(MergeFiltered) = 1
    /\ mergeStats(combinedStocks).total = 2
    /\ mergeStats(combinedStocks).matched = 1

----------------------------------------------------------------------------
(* Properties of the filtered list and the facets (checked under SpecFacet) *)

Stocks == IF data = Null THEN <<>> ELSE data.stocks

Listed == 1..Len(Stocks)

MarketPred(s) == marketFilter = "all" \/ toLowerCase(s.market) = marketFilter
MatchPred(s) == matchFilters = {} \/ s.match_status \in matchFilters
SignalPred(s) == signalFilters = {} \/ s.vision_signal \in signalFilters
                                    \/ s.api_signal \in signalFilters

mCounts == marketCounts(data, marketFilter, matchFilters, signalFilters)
sCounts == signalCounts(data, marketFilter, matchFilters, signalFilters)
stCounts == matchCounts(data, marketFilter, matchFilters, signalFilters)

\* stocks passing the two facets other than the named one
OtherThanMarket == {i \in Listed : MatchPred(Stocks[i]) /\ SignalPred(Stocks[i])}
OtherThanMatch == {i \in Listed : MarketPred(Stocks[i]) /\ SignalPred(Stocks[i])}
OtherThanSignal == {i \in Listed : MarketPred(Stocks[i]) /\ MatchPred(Stocks[i])}

MarketFacetIndependent ==
    /\ mCounts.all = Cardinality(OtherThanMarket)
    /\ mCounts.kospi
         = Cardinality({i \in OtherThanMarket : toLowerCase(Stocks[i].market) = "kospi"})
    /\ mCounts.kosdaq
         = Cardinality({i \in OtherThanMarket : toLowerCase(Stocks[i].market) = "kosdaq"})

MatchFacetIndependent ==
    \A st \in MatchStatus :
        stCounts[st] = Cardinality({i \in OtherThanMatch : Stocks[i].match_status = st})

\* C8 as stated: every option count of every facet is the number of stocks
\* that satisfy the option among the stocks passing the other two facets; for
\* a signal level, the stocks whose vision or api signal is that level.
C8_FacetCountsStocks ==
    /\ MarketFacetIndependent
    /\ MatchFacetIndependent
    /\ \A level \in SignalType :
          sCounts[level]
            = Cardinality({i \in OtherThanSignal :
                              \/ Stocks[i].vision_signal = level
                              \/ Stocks[i].api_signal = level})

\* C8 as amended: the market and match-status counts are numbers of stocks
\* among those passing the other two facets; the count of a signal level is
\* the number of its occurrences (vision and api counted separately) among the
\* stocks passing the market and match-status facets.
C8_FacetIndependence ==
    /\ MarketFacetIndependent
    /\ MatchFacetIndependent
    /\ \A level \in SignalType :
          sCounts[level]
            = Cardinality({i \in OtherThanSignal : Stocks[i].vision_signal = level})
              + Cardinality({i \in OtherThanSignal : Stocks[i].api_signal = level})

C8_Witness ==
    /\ marketFilter = "kosdaq"
    /\ matchFilters = {"match", "partial"}
    /\ signalFilters # {}
    /\ Len(Stocks) = 2
    /\ sCounts["strong_buy"] = 1
    /\ mCounts.kospi = 1
    /\ mCounts.all = 2

Filtered == filteredStocks(data, marketFilter, matchFilters, signalFilters)

Times(seq, r) == Cardinality({i \in 1..Len(seq) : seq[i] = r})

\* C10: the filtered list holds exactly the stocks that pass the market
\* predicate, the match-status predicate and the signal predicate together.
C10_FilteredExactly ==
    \A r \in StockPool :
        Times(Filtered, r)
          = IF MarketPred(r) /\ MatchPred(r) /\ SignalPred(r)
            THEN Times(Stocks, r) ELSE 0

C10_Witness ==
    /\ marketFilter # "all" /\ matchFilters # {} /\ signalFilters # {}
    /\ Len(Stocks) = 2
    /\ Len(Filtered) = 1
    /\ Filtered[1].vision_signal \notin signalFilters

\* the stocks the market counts are taken over (match-status and signal
\* predicates applied first), then narrowed to the selected market
MarketAppliedLast ==
    LET fm == IF data = Null THEN <<>>
              ELSE forMarket(data, matchFilters, signalFilters)
    IN CASE marketFilter = "kospi" -> SelectSeq(fm, LAMBDA s : s.market = "KOSPI")
         [] marketFilter = "kosdaq" -> SelectSeq(fm, LAMBDA s : s.market = "KOSDAQ")
         [] OTHER -> fm

\* C18: the filtered list, which applies the market predicate first and the
\* match-status predicate after it, has the members and the order of the list
\* obtained by applying the match-status (and signal) predicate first and the
\* market predicate last, once sorted.
C18_OrderIndependent ==
    Filtered = StableSort(MarketAppliedLast, RankOf)

C18_Witness ==
    /\ marketFilter # "all" /\ matchFilters # {}
    /\ Len(Stocks) = 2
    /\ Len(forMarket(data, matchFilters, signalFilters)) = 2
    /\ Len(Filtered) = 1

HasRank(s) == s.api_data # NoApiData

\* the places of the filtered list's members in the snapshot's list, in the
\* order the filter keeps them
KeptPlaces == {i \in Listed : MarketPred(Stocks[i]) /\ MatchPred(Stocks[i])
                                /\ SignalPred(Stocks[i])}

\* the place in the snapshot's list of the p-th member of the filtered list
\* under a stable ascending sort by rank, unranked members last
PlaceOf(p) ==
    CHOOSE i \in KeptPlaces :
        p = 1 + Cardinality({j \in KeptPlaces :
                \/ (HasRank(Stocks[j]) /\ ~HasRank(Stocks[i]))
                \/ (HasRank(Stocks[j]) /\ HasRank(Stocks[i])
                      /\ Stocks[j].api_data.ranking.volume_rank
                            < Stocks[i].api_data.ranking.volume_rank)
                \/ (HasRank(Stocks[j]) = HasRank(Stocks[i])
                      /\ (HasRank(Stocks[i]) =>
                            Stocks[j].api_data.ranking.volume_rank
                              = Stocks[i].api_data.ranking.volume_rank)
                      /\ j < i)})

----------------------------------------------------------------------------
(* The counts the filter bar displays against the list (SpecFacet) *)

Loaded == loading = {} /\ data # Null

\* the count shown on the market option that is selected
SelectedMarketCount ==
    CASE marketFilter = "kospi" -> memo.marketCounts.kospi
      [] marketFilter = "kosdaq" -> memo.marketCounts.kosdaq
      [] OTHER -> memo.marketCounts.all

\* C21: with data loaded, in every filter state, the market count displayed
\* for the selected market option (all, kospi or kosdaq) is the number of
\* stocks in the filtered list.
C21_SelectedMarketCount ==
    Loaded => SelectedMarketCount = Len(memo.filteredStocks)

\* a market is selected with both other facets cutting the list
C21_Witness ==
    /\ Loaded
    /\ marketFilter = "kosdaq"
    /\ matchFilters # {} /\ signalFilters # {}
    /\ Len(data.stocks) = 2
    /\ memo.marketCounts.all = 1
    /\ memo.marketCounts.kospi = 0
    /\ Len(memo.filteredStocks) = 1

RECURSIVE SumOver(_, _)
SumOver(counts, keys) ==
    IF keys = {} THEN 0
    ELSE LET k == CHOOSE x \in keys : TRUE
         IN counts[k] + SumOver(counts, keys \ {k})

SelectedStatuses == IF matchFilters = {} THEN MatchStatus ELSE matchFilters

\* C22: with data loaded, in every filter state, the match-status counts
\* summed over the selected statuses (over all of them when none is selected)
\* give the number of stocks in the filtered list.
C22_SelectedMatchSum ==
    Loaded => SumOver(memo.matchCounts, SelectedStatuses) = Len(memo.filteredStocks)

\* two statuses are selected, the signal filter removes one of two stocks
C22_Witness ==
    /\ Loaded
    /\ Cardinality(matchFilters) = 2
    /\ signalFilters # {}
    /\ Len(data.stocks) = 2
    /\ \A i \in 1..2 : data.stocks[i].match_status \in matchFilters
    /\ Len(memo.filteredStocks) = 1

----------------------------------------------------------------------------
(* Properties of the snapshot selection (checked under SpecSnapshot) *)

HistoryKey(name, prefix) ==
    [name |-> name, file |-> historyFilename(prefix, uiStore.viewingHistoryDateTime)]

\* the query that holds the snapshot the combined tab is set to
CurrentKey ==
    IF uiStore.isViewingHistory THEN HistoryKey("combined-history", "combined_")
    ELSE [name |-> "combined", file |-> LatestFile]

\* the selected snapshot as far as it has arrived: its file once the query has
\* resolved, nothing before
Arrived(key) ==
    IF queryCache[key].status = "success" THEN ResultFile(key) ELSE Null

StocksOf(d) == IF d = Null THEN {} ELSE {d.stocks[i] : i \in 1..Len(d.stocks)}

\* C11: whatever snapshot key is in force, the data, the listed stocks and
\* every count the combined tab holds are those of that key's file (nothing
\* while it is loading), never those of the key selected before.
C11_SnapshotIsolation ==
    LET S2 == Arrived(CurrentKey)
    IN /\ data = S2
       /\ memo.filteredStocks
            = filteredStocks(S2, marketFilter, matchFilters, signalFilters)
       /\ memo.marketCounts
            = marketCounts(S2, marketFilter, matchFilters, signalFilters)
       /\ memo.signalCounts
            = signalCounts(S2, marketFilter, matchFilters, signalFilters)
       /\ memo.matchCounts
            = matchCounts(S2, marketFilter, matchFilters, signalFilters)
       /\ \A i \in 1..Len(memo.filteredStocks) :
            memo.filteredStocks[i] \in StocksOf(ResultFile(CurrentKey))

\* a history snapshot is shown, filtered, after the latest one was shown
C11_Witness ==
    /\ uiStore.isViewingHistory
    /\ queryCache[[name |-> "combined", file |-> LatestFile]].status = "success"
    /\ queryCache[CurrentKey].status = "success"
    /\ matchFilters # {}
    /\ Len(memo.filteredStocks) = 0
    /\ memo.marketCounts.all = 0
    /\ memo.matchCounts["partial"] = 1

\* C12: while a history key is selected whose archive does not exist, the tab
\* holds no data and, once the query has answered, returns its empty state;
\* it never shows the latest snapshot in its place.
C12_NotFoundNotLatest ==
    uiStore.isViewingHistory =>
        /\ ResultFile(CurrentKey) = Null =>
             /\ data = Null
             /\ memo.filteredStocks = <<>>
             /\ memo.marketCounts.all = 0
             /\ queryCache[CurrentKey].status = "success"
                  => pageView(uiStore, queryCache) = "empty"
        /\ ResultFile(HistoryKey("kis-history", "kis_")) = Null =>
             /\ analysisData(uiStore, queryCache) = Null
             /\ apiKisData(uiStore, queryCache) = Null
             /\ queryCache[HistoryKey("kis-history", "kis_")].status = "success"
                  => apiView(uiStore, queryCache) = "no-history-data"

\* the latest snapshot is in the cache when the missing archive is reported
C12_Witness ==
    /\ uiStore.isViewingHistory
    /\ ResultFile(CurrentKey) = Null
    /\ queryCache[CurrentKey].status = "success"
    /\ useCombinedData(queryCache) # Null
    /\ pageView(uiStore, queryCache) = "empty"

----------------------------------------------------------------------------
(* Properties of the UI store and the history panel (SpecUIStore) *)

ActiveItems ==
    {i \in 1..Len(historyIndex) : isActive(uiStore, today, historyIndex[i])}

\* C28: the open history panel marks at most one entry of the index as
\* active, and an entry it marks is the one whose (date, time) key is the
\* snapshot being viewed.
C28_OneActiveItem ==
    uiStore.isHistoryPanelOpen =>
        /\ Cardinality(ActiveItems) <= 1
        /\ \A i \in ActiveItems :
              getItemDateTime(historyIndex[i]) = uiStore.viewingHistoryDateTime

\* C29: in every state of the UI store, isViewingHistory is set exactly
\* when viewingHistoryDateTime is not null.
C29_FlagIffKey ==
    uiStore.isViewingHistory <=> uiStore.viewingHistoryDateTime # NoDateTime

\* the key was set by a click, cleared by setViewingHistory(null), set again
\* and the filters of the store were moved meanwhile
C29_Witness ==
    /\ uiStore.isViewingHistory
    /\ uiStore.viewingHistoryDateTime = getItemDateTime(historyIndex[3])
    /\ uiStore.activeMarket = "kosdaq"
    /\ uiStore.activeSignal = "sell"
    /\ uiStore.activeTab = "combined"
    /\ uiStore.toast.message # ""
    /\ ~uiStore.toast.isVisible

----------------------------------------------------------------------------
(* Properties of the simulation store (SpecSimulation) *)

\* C27: whatever dates were toggled, selected all at once or deselected,
\* activeDetailDate is null exactly when no date is selected, and is one of
\* the selected dates otherwise.
C27_DetailDateSelected ==
    /\ simStore.activeDetailDate = NoDate <=> simStore.selectedDates = {}
    /\ simStore.activeDetailDate # NoDate
          => simStore.activeDetailDate \in simStore.selectedDates

\* two dates are left selected and the detail date is the earlier of them
C27_Witness ==
    /\ Cardinality(simStore.selectedDates) = 2
    /\ simStore.activeDetailDate \in simStore.selectedDates
    /\ simStore.activeDetailDate # Greatest(simStore.selectedDates)
    /\ simStore.activeCategories # SimulationCategory

----------------------------------------------------------------------------
(* Properties of ExpireStorage (SpecStorage) *)

\* C26: getItem returns the value setItem stored under the key only if at
\* most SESSION_DURATION_MS (8 hours) have passed since it was stored or the
\* admin flag is set; with the flag unset, getItem on an item stored more
\* than 8 hours ago returns null and removes the item from localStorage.
C26_SessionLifetime ==
    [][\A key \in StorageKeys :
          getItemCall(key) =>
              /\ (stored[key] # NotStored /\ returned'.result = stored[key].value)
                    => \/ stored[key].age <= SESSION_DURATION_MS
                       \/ isAdmin(localStorage)
              /\ (stored[key] # NotStored
                     /\ stored[key].age > SESSION_DURATION_MS
                     /\ ~isAdmin(localStorage))
                    => /\ returned'.result = JSNull
                       /\ localStorage'[key] = NoItem]_vars

\* with the flag unset, the value was returned exactly 8 hours after it was
\* stored
C26_Witness ==
    /\ ~isAdmin(localStorage)
    /\ stored[SessionKey].age = SESSION_DURATION_MS
    /\ returned.key = SessionKey
    /\ returned.ago = 0
    /\ returned.result = stored[SessionKey].value
    /\ returned.result \in StoredValues

----------------------------------------------------------------------------
(* Properties of the inactivity timer (SpecAuth, SpecAuthLive) *)

MemberSignedIn == authStore.user # Null /\ ~authStore.isAdmin

\* no call of the auth client is waiting for its answer
NothingInFlight ==
    /\ supabase.initializing = 0
    /\ supabase.rechecking = 0
    /\ supabase.signOuts = 0

\* C24: once initialize has run, in every state where no call of the auth
\* client is in flight, a timer is pending and the activity listeners are
\* attached if the store holds a signed-in user who is no admin, and no
\* timer is pending and no listener attached otherwise.
C24_TimerMatchesUser ==
    (~authStore.isLoading /\ NothingInFlight) =>
        IF MemberSignedIn
        THEN timers # {} /\ activityListenersAttached
        ELSE timers = {} /\ ~activityListenersAttached

\* at most one timer is pending, the one inactivityTimer names, and it runs
\* INACTIVITY_TIMEOUT_MS after lastActivity
OneTimerPending ==
    \A t \in timers :
        /\ timers = {t}
        /\ t.id = inactivityTimer
        /\ t.remaining + lastActivity = INACTIVITY_TIMEOUT_MS

\* C25: if from some point on no activity event is handled (and nobody signs
\* in again), then whenever a user who is no admin is signed in with the
\* inactivity timer pending, supabase.auth.signOut is eventually invoked or
\* the user is no longer signed in.
C25_IdleLogout ==
    <>[][~handleActivity /\ (\A user \in Users : ~SignedIn(user))]_vars
      => ((MemberSignedIn /\ timers # {})
            ~> (~MemberSignedIn \/ supabase.signOuts > 0))

====
